---- MODULE Spec2Model ----
(***************************************************************************)
(* timesched: one-shot and repeat timers on top of the standard library    *)
(* sched.scheduler (src/timesched.py).                                     *)
(*                                                                         *)
(* Time is counted in integer ticks of one clock, read by time.time (the   *)
(* default timefunc) and by datetime.datetime.now(). A calendar day is     *)
(* DayLen ticks long, tick 0 is midnight of a Monday, and local time has   *)
(* no zone changes, so datetime.timestamp() and datetime.fromtimestamp()   *)
(* are day * DayLen + time-of-day and its inverse.                         *)
(***************************************************************************)
EXTENDS Integers, Sequences, FiniteSets, TLC

\* ------------------------------------------------------------------ bounds
MaxCalls == 4       \* calls of the Scheduler API in one behaviour
MaxTime == 3        \* the clock stops advancing at this tick
DayLen == 2         \* ticks per calendar day
MaxDelay == 2       \* largest relative delay, in ticks

\* range(7), the days of a week (Monday is 0)
NDAYS == 7

\* ------------------------------------------------- characters and strings
\* A character is a one-letter string; the two code points whose uppercase
\* mapping is not a single same-position letter are named by code point:
\* U+00DF (sharp s, uppercases to "SS") and U+017F (long s, uppercases to "S").
\* str.upper() of one character, as the string it becomes
CharUpper(c) ==
    CASE c = "m" -> <<"M">>
      [] c = "t" -> <<"T">>
      [] c = "w" -> <<"W">>
      [] c = "f" -> <<"F">>
      [] c = "s" -> <<"S">>
      [] c = "x" -> <<"X">>
      [] c = "U+00DF" -> <<"S", "S">>
      [] c = "U+017F" -> <<"S">>
      [] OTHER -> <<c>>

\* str.upper(): the characters' uppercase mappings, concatenated
RECURSIVE upper(_)
upper(str) ==
    IF str = <<>> THEN <<>> ELSE CharUpper(Head(str)) \o upper(Tail(str))

\* str.isupper() of one character
isupper(c) == c \in {"M", "T", "W", "F", "S", "X"}

DAYS_STRING == <<"M", "T", "W", "T", "F", "S", "S">>

\* The days argument of a registration: None, a list of ints or a string.
NoneDays == [kind |-> "none", list |-> {}, str |-> <<>>]
ListDays(l) == [kind |-> "list", list |-> l, str |-> <<>>]
StrDays(s) == [kind |-> "str", list |-> {}, str |-> s]

\* parse_days(arg): [err |-> the ValueError of line 22 is raised,
\*                   list |-> the value returned]
parse_days(arg) ==
    LET a == IF arg.kind = "none" THEN StrDays(DAYS_STRING) ELSE arg IN
    IF a.kind # "str" THEN [err |-> FALSE, list |-> a.list]
    ELSE IF upper(a.str) # DAYS_STRING THEN [err |-> TRUE, list |-> {}]
    ELSE [err |-> FALSE,
          list |-> {i \in 0..(Len(a.str) - 1) : isupper(a.str[i + 1])}]

\* _Timer.__init__ lines 80-83: the outcome of the days argument and self.days
DaysOutcome(days) ==
    LET parsed == parse_days(days)
        flags == [i \in 0..(NDAYS - 1) |-> i \in parsed.list]
    IN IF parsed.err THEN [result |-> "FormatError", days |-> flags]
       ELSE IF \A i \in 0..(NDAYS - 1) : ~flags[i]
            THEN [result |-> "InvalidWeekdayMask", days |-> flags]
       ELSE [result |-> "ok", days |-> flags]

\* ---------------------------------------------------- time specifications
\* kind "secs": int/float seconds s; "timedelta": d days and s seconds;
\* "datetime": day d at time-of-day s; "date": day d; "time": time-of-day s.
Secs(s) == [kind |-> "secs", d |-> 0, s |-> s]
Timedelta(d, s) == [kind |-> "timedelta", d |-> d, s |-> s]
Datetime(d, s) == [kind |-> "datetime", d |-> d, s |-> s]
Date(d) == [kind |-> "date", d |-> d, s |-> 0]
Time(s) == [kind |-> "time", d |-> 0, s |-> s]

\* timedelta.seconds: the seconds field alone, without the days
timedelta_seconds(td) == td.s

\* timedelta.total_seconds()
total_seconds(td) == td.d * DayLen + td.s

\* datetime.timestamp() of day d, time-of-day s
timestamp(d, s) == d * DayLen + s

\* datetime.datetime.now() at clock tick t: date, time-of-day, weekday()
now_date(t) == t \div DayLen
now_time(t) == t % DayLen
weekday(d) == d % NDAYS

\* As TimePassed, with a target equal to now's time-of-day still to come
TimePassedStrict(timev, tod) == timev < tod

\* line 61: the target time-of-day is not after now's time-of-day
TimePassed(timev, tod) == timev <= tod

\* As ScanLast, counting the seven days from today whatever the start
ScanLastFixed(days) == NDAYS - 1

\* line 65: the last value of range(days, days + 7)
ScanLast(days) == days + NDAYS - 1

\* lines 65-68: for days in range(days, last + 1): stop at an enabled dow.
\* Without a break the loop variable keeps its last value.
RECURSIVE ScanDays(_, _, _, _)
ScanDays(flags, dow, days, last) ==
    IF flags[dow] THEN days
    ELSE IF days = last THEN days
    ELSE ScanDays(flags, (dow + 1) % NDAYS, days + 1, last)

\* lines 58-72: the absolute time of the next timev on an enabled day
NextTimeOfDay(timev, flags, t) ==
    LET passed == TimePassed(timev, now_time(t))
        dow0 == weekday(now_date(t))
        dow == IF passed THEN (dow0 + 1) % NDAYS ELSE dow0
        days0 == IF passed THEN 1 ELSE 0
        days == ScanDays(flags, dow, days0, ScanLast(days0))
    IN timestamp(now_date(t) + days, timev)

\* As _invoke, but the seconds go to enterabs as an absolute time
_invoke_enterabs(timev, self, t) ==
    CASE timev.kind = "secs" -> [err |-> FALSE, when |-> timev.s]
      [] timev.kind = "timedelta" ->
            [err |-> FALSE, when |-> t + total_seconds(timev)]
      [] timev.kind \in {"datetime", "date"} ->
            IF ~self.oneshot THEN [err |-> TRUE, when |-> 0]
            ELSE [err |-> FALSE, when |-> timestamp(timev.d, timev.s)]
      [] timev.kind = "time" ->
            [err |-> FALSE, when |-> NextTimeOfDay(timev.s, self.days, t)]

\* As _invoke, without the check that an absolute time is for a one-shot
_invoke_any(timev, self, t) ==
    CASE timev.kind = "secs" -> [err |-> FALSE, when |-> t + timev.s]
      [] timev.kind = "timedelta" ->
            [err |-> FALSE, when |-> t + total_seconds(timev)]
      [] timev.kind \in {"datetime", "date"} ->
            [err |-> FALSE, when |-> timestamp(timev.d, timev.s)]
      [] timev.kind = "time" ->
            [err |-> FALSE, when |-> NextTimeOfDay(timev.s, self.days, t)]

\* _invoke(timev, self) at clock tick t:
\* [err |-> TypeError raised, when |-> the time given to sched.enterabs]
_invoke(timev, self, t) ==
    CASE timev.kind = "secs" -> [err |-> FALSE, when |-> t + timev.s]
      [] timev.kind = "timedelta" ->
            [err |-> FALSE, when |-> t + total_seconds(timev)]
      [] timev.kind = "datetime" ->
            IF ~self.oneshot THEN [err |-> TRUE, when |-> 0]
            ELSE [err |-> FALSE, when |-> timestamp(timev.d, timev.s)]
      [] timev.kind = "date" ->
            IF ~self.oneshot THEN [err |-> TRUE, when |-> 0]
            ELSE [err |-> FALSE, when |-> timestamp(timev.d, 0)]
      [] timev.kind = "time" ->
            [err |-> FALSE, when |-> NextTimeOfDay(timev.s, self.days, t)]

\* ------------------------------------------------------------------ state
VARIABLES
    now,        \* the clock: time.time() and datetime.datetime.now()
    timers,     \* the _Timer objects the registration calls returned, in order
    queue,      \* sched.scheduler._queue: the set of queued Events
    sequence,   \* sched.scheduler._sequence_generator: the next sequence number
    _count,     \* Scheduler._count
    mode,       \* "idle", or the Scheduler.run() in progress: "blocking"/"nonblocking"
    firing,     \* the timer whose user function is executing (0: none)
    delivered,  \* the Event the run in progress popped last (None: none yet)
    last,       \* the last API call made and its outcome ("running": none yet)
    raised,     \* an exception of a user function has left cb and run()
    family,     \* the family of registration arguments the caller draws from
    calls,      \* the number of Scheduler API calls made so far
    arg,        \* the input of a pure function under check
    ret         \* its result

vars == <<now, timers, queue, sequence, _count, mode, firing, delivered,
          last, raised, family, calls, arg, ret>>

\* Event(time, priority, sequence, action): action is the cb of timer `timer`
Event(time, priority, seq, timer) ==
    [time |-> time, priority |-> priority, sequence |-> seq, timer |-> timer]

\* self.eventid = None
None == Event(-1, 0, -1, 0)

\* As EventLess, comparing (time, sequence) only
EventLessNoPriority(a, b) ==
    \/ a.time < b.time
    \/ a.time = b.time /\ a.sequence < b.sequence

\* Events compare as tuples (time, priority, sequence, ...): heapq order
EventLess(a, b) ==
    \/ a.time < b.time
    \/ a.time = b.time /\ a.priority < b.priority
    \/ a.time = b.time /\ a.priority = b.priority /\ a.sequence < b.sequence

\* q[0], the least Event of the heap
Head_(q) == CHOOSE e \in q : \A o \in q \ {e} : EventLess(e, o)

\* The arguments of a registration call, and their value for any other call
Request(oneshot, days, time, prio) ==
    [oneshot |-> oneshot, days |-> days, time |-> time, prio |-> prio]
NoRequest == Request(FALSE, NoneDays, Secs(0), 0)

\* The outcome of an API call: what it was, how it ended, the timer it
\* returned or acted on, the arguments of a registration
Outcome(op, result, timer, req) ==
    [op |-> op, result |-> result, timer |-> timer, req |-> req]

\* The arguments (days, time, priority) a caller registers with, by family.
Menu(f) ==
    CASE f = "seconds" ->
            {[days |-> NoneDays, time |-> Secs(s), prio |-> 0] : s \in 1..MaxDelay}
            \cup {[days |-> NoneDays, time |-> Secs(1), prio |-> 1]}
      [] f = "timedelta" ->
            {[days |-> NoneDays, time |-> t, prio |-> 0] :
                t \in {Timedelta(0, 1), Timedelta(1, 0)}}
      [] f = "absolute" ->
            {[days |-> NoneDays, time |-> t, prio |-> 0] :
                t \in {Datetime(0, 1), Date(1), Secs(1)}}
      [] f = "on_days" ->
            {[days |-> d, time |-> Datetime(0, 1), prio |-> 0] :
                d \in {ListDays({0}), ListDays({}), ListDays({NDAYS}),
                       StrDays(<<"M", "T", "W", "T", "F", "s", "s">>),
                       StrDays(<<"m", "t", "w", "t", "f", "s", "s">>),
                       StrDays(<<"M", "T", "W", "T", "F", "S">>)}}
      [] f = "wallclock" ->
            {[days |-> NoneDays, time |-> Time(s), prio |-> 0] :
                s \in 0..(DayLen - 1)}
      [] f = "weekdays" ->
            {[days |-> ListDays({1}), time |-> t, prio |-> 0] :
                t \in {Time(0), Secs(1)}}

Families ==
    {"seconds", "timedelta", "absolute", "on_days", "wallclock", "weekdays"}

\* Scheduler.__init__ (lines 116-122): an empty queue, no timer
InitScheduler ==
    /\ timers = <<>>
    /\ queue = {}
    /\ sequence = 0
    /\ _count = 0
    /\ mode = "idle"
    /\ firing = 0
    /\ delivered = None
    /\ last = Outcome("none", "ok", 0, NoRequest)
    /\ raised = FALSE
    /\ calls = 0

Init ==
    /\ InitScheduler
    /\ now = 0
    /\ family \in Families
    /\ arg = 0
    /\ ret = 0

\* The caller's code is executing: the main program between API calls, or a
\* user function called by cb.
CallerRuns == mode = "idle" \/ firing # 0

Timers == 1..Len(timers)

Min(a, b) == IF a < b THEN a ELSE b

\* ------------------------------------------------------------- operations
\* What the operations on the scheduler leave alone: the caller's inputs
env == <<family, arg, ret>>

\* _Timer.__init__ (lines 76-90), called by oneshot, repeat, oneshot_on_days
\* and repeat_on_days
Timer_init(oneshot, days, time, prio) ==
    LET parsed == DaysOutcome(days)
        id == Len(timers) + 1
        self == [oneshot |-> oneshot, days |-> parsed.days, time |-> time,
                 prio |-> prio, active |-> TRUE, eventid |-> None,
                 stamp |-> now, fires |-> 0, cancelin |-> -1]
        inv == _invoke(time, self, now)
        event == Event(inv.when, prio, sequence, id)
        req == Request(oneshot, days, time, prio)
    IN
    IF parsed.result = "FormatError" THEN
        \* line 22: ValueError('Day of week string must be ...')
        /\ last' = Outcome("register", "FormatError", 0, req)
        /\ UNCHANGED <<timers, queue, sequence, _count>>
    ELSE IF parsed.result = "InvalidWeekdayMask" THEN
        \* line 83: ValueError('Must specify at least one day, 0-6')
        /\ last' = Outcome("register", "InvalidWeekdayMask", 0, req)
        /\ UNCHANGED <<timers, queue, sequence, _count>>
    ELSE IF inv.err THEN
        \* lines 87-88 have run, line 90 raises TypeError: no _Timer is
        \* returned, the count stays incremented
        /\ _count' = _count + 1
        /\ last' = Outcome("register", "UnsupportedRepeatKind", 0, req)
        /\ UNCHANGED <<timers, queue, sequence>>
    ELSE
        /\ _count' = _count + 1
        /\ timers' = Append(timers, [self EXCEPT !.eventid = event])
        /\ queue' = queue \cup {event}
        /\ sequence' = sequence + 1
        /\ last' = Outcome("register", "ok", id, req)

\* Scheduler.oneshot / oneshot_on_days / repeat / repeat_on_days
Register ==
    /\ CallerRuns
    /\ calls < MaxCalls
    /\ calls' = calls + 1
    /\ \E oneshot \in BOOLEAN, m \in Menu(family) :
            Timer_init(oneshot, m.days, m.time, m.prio)
    /\ UNCHANGED <<now, mode, firing, delivered, raised, env>>

\* As sched_cancel, with Events equal when their time and priority are equal:
\* the first such Event of the heap is removed
sched_cancel_by_key(q, event) ==
    LET same == {e \in q : e.time = event.time /\ e.priority = event.priority}
    IN IF same = {} THEN q ELSE q \ {Head_(same)}

\* sched.scheduler.cancel(event): self._queue.remove(event), by tuple equality
sched_cancel(q, event) == q \ {event}

\* As cancel, without the check of self.active
cancel_unchecked(t) ==
    LET self == timers[t] IN
    /\ timers' = [timers EXCEPT ![t].active = FALSE, ![t].cancelin = firing]
    /\ _count' = _count - 1
    /\ queue' = IF self.eventid # None THEN sched_cancel(queue, self.eventid)
                ELSE queue
    /\ last' = Outcome("cancel", "ok", t, NoRequest)

\* _Timer.cancel (lines 104-112)
cancel(t) ==
    LET self == timers[t] IN
    IF ~self.active THEN
        \* line 107: ValueError('Already cancelled')
        /\ last' = Outcome("cancel", "AlreadyCancelled", t, NoRequest)
        /\ UNCHANGED <<timers, queue, _count>>
    ELSE
        /\ timers' = [timers EXCEPT ![t].active = FALSE,
                                    ![t].cancelin = firing]
        /\ _count' = _count - 1
        /\ IF self.eventid # None
           THEN /\ queue' = sched_cancel(queue, self.eventid)
                \* list.remove raises ValueError when the event is not queued
                /\ last' = Outcome("cancel",
                                    IF self.eventid \in queue THEN "ok"
                                    ELSE "ValueError", t, NoRequest)
           ELSE /\ queue' = queue
                /\ last' = Outcome("cancel", "ok", t, NoRequest)

\* Scheduler.cancel(timer)
Cancel ==
    /\ CallerRuns
    /\ calls < MaxCalls
    /\ calls' = calls + 1
    /\ \E t \in Timers : cancel(t)
    /\ UNCHANGED <<now, sequence, mode, firing, delivered, raised, env>>

\* Scheduler.run(blocking): enter sched.scheduler.run
run ==
    /\ mode = "idle"
    /\ calls < MaxCalls
    /\ calls' = calls + 1
    /\ \E blocking \in BOOLEAN :
            mode' = IF blocking THEN "blocking" ELSE "nonblocking"
    /\ delivered' = None
    /\ last' = Outcome("run", "running", 0, NoRequest)
    /\ UNCHANGED <<now, timers, queue, sequence, _count, firing, raised, env>>

\* As Fire, popping the head whether it is due or not
FireHead ==
    /\ mode # "idle"
    /\ firing = 0
    /\ queue # {}
    /\ LET e == Head_(queue) IN
        /\ queue' = queue \ {e}
        /\ timers' = [timers EXCEPT
                        ![e.timer].eventid = None,
                        ![e.timer].fires = Min(@ + 1, 2),
                        ![e.timer].stamp = now]
        /\ firing' = e.timer
        /\ delivered' = e
    /\ UNCHANGED <<now, sequence, _count, mode, last, calls, raised, env>>

\* The run loop finds the head due, pops it and calls its action, cb, which
\* clears the handle (line 94) and calls the user function (line 95).
Fire ==
    /\ mode # "idle"
    /\ firing = 0
    /\ queue # {}
    /\ LET e == Head_(queue) IN
        /\ e.time <= now
        /\ queue' = queue \ {e}
        /\ timers' = [timers EXCEPT
                        ![e.timer].eventid = None,
                        ![e.timer].fires = Min(@ + 1, 2),
                        ![e.timer].stamp = now]
        /\ firing' = e.timer
        /\ delivered' = e
    /\ UNCHANGED <<now, sequence, _count, mode, last, calls, raised, env>>

\* As cb_active, taking the timer for active whatever cancel() did
cb_active_always(self) == TRUE

\* line 96: if self.active, read after the user function has returned
cb_active(self) == self.active

\* The user function returns: lines 96-102 of cb
CbReturn ==
    /\ firing # 0
    /\ LET self == timers[firing]
           inv == _invoke(self.time, self, now)
           event == Event(inv.when, self.prio, sequence, firing)
       IN
       IF ~cb_active(self) THEN
            /\ firing' = 0
            /\ UNCHANGED <<timers, queue, sequence, _count, mode, last, raised>>
       ELSE IF self.oneshot THEN
            /\ timers' = [timers EXCEPT ![firing].active = FALSE]
            /\ _count' = _count - 1
            /\ firing' = 0
            /\ UNCHANGED <<queue, sequence, mode, last, raised>>
       ELSE IF inv.err THEN
            \* the TypeError of _invoke would leave cb and run
            /\ firing' = 0
            /\ mode' = "idle"
            /\ last' = Outcome("run", "UnsupportedRepeatKind", firing, NoRequest)
            /\ raised' = TRUE
            /\ UNCHANGED <<timers, queue, sequence, _count>>
       ELSE
            /\ timers' = [timers EXCEPT ![firing].eventid = event]
            /\ queue' = queue \cup {event}
            /\ sequence' = sequence + 1
            /\ firing' = 0
            /\ UNCHANGED <<_count, mode, last, raised>>
    /\ UNCHANGED <<now, delivered, calls, env>>

\* As CbRaise, with the bookkeeping of a returning one-shot done on the way
\* out
CbRaiseRetires ==
    /\ firing # 0
    /\ firing' = 0
    /\ mode' = "idle"
    /\ last' = Outcome("run", "raised", firing, NoRequest)
    /\ timers' = [timers EXCEPT ![firing].active = FALSE]
    /\ _count' = IF timers[firing].active THEN _count - 1 ELSE _count
    /\ raised' = TRUE
    /\ UNCHANGED <<now, queue, sequence, delivered, calls, env>>

\* The user function raises: the exception leaves cb at line 95 and
\* sched.scheduler.run, which catches nothing
CbRaise ==
    /\ firing # 0
    /\ firing' = 0
    /\ mode' = "idle"
    /\ last' = Outcome("run", "raised", firing, NoRequest)
    /\ raised' = TRUE
    /\ UNCHANGED <<now, timers, queue, sequence, _count, delivered, calls, env>>

\* The run loop finds the head not due and sleeps: delayfunc(time - now)
RunDelay ==
    /\ mode = "blocking"
    /\ firing = 0
    /\ queue # {}
    /\ Head_(queue).time > now
    /\ Head_(queue).time <= MaxTime
    /\ now' = Head_(queue).time
    /\ UNCHANGED <<timers, queue, sequence, _count, mode, firing, delivered,
                   last, calls, raised, env>>

\* sched.scheduler.run returns: the queue is empty, or the head is not due
\* and the run is non-blocking
RunReturn ==
    /\ mode # "idle"
    /\ firing = 0
    /\ \/ queue = {}
       \/ mode = "nonblocking" /\ queue # {} /\ Head_(queue).time > now
    /\ mode' = "idle"
    /\ last' = Outcome("run", "ok", 0, NoRequest)
    /\ UNCHANGED <<now, timers, queue, sequence, _count, firing, delivered,
                   calls, raised, env>>

\* Time passes while the caller's code runs
Tick ==
    /\ CallerRuns
    /\ now < MaxTime
    /\ now' = now + 1
    /\ UNCHANGED <<timers, queue, sequence, _count, mode, firing, delivered,
                   last, calls, raised, env>>

Next ==
    \/ Register
    \/ Cancel
    \/ run
    \/ Fire
    \/ CbReturn
    \/ CbRaise
    \/ RunDelay
    \/ RunReturn
    \/ Tick

Spec == Init /\ [][Next]_vars

\* Scheduler.count()
count == _count

\* ------------------------------------- the resolution of a time of day alone
\* Every weekday mask _Timer.__init__ lets through: at least one day enabled
Masks ==
    {[i \in 0..(NDAYS - 1) |-> i \in S] : S \in (SUBSET (0..(NDAYS - 1))) \ {{}}}

\* No deadline resolved yet
NoResult == [err |-> FALSE, when |-> -1]

\* now is any moment of a week, arg the target time-of-day and the mask
InitTime ==
    /\ InitScheduler
    /\ now \in 0..(NDAYS * DayLen - 1)
    /\ family = "wallclock"
    /\ arg \in [timev : 0..(DayLen - 1), days : Masks]
    /\ ret = NoResult

\* _invoke(timev, self) for a datetime.time: the time handed to enterabs
Resolve ==
    /\ ret = NoResult
    /\ ret' = _invoke(Time(arg.timev),
                      [oneshot |-> TRUE, days |-> arg.days], now)
    /\ UNCHANGED <<now, timers, queue, sequence, _count, mode, firing,
                   delivered, last, raised, calls, family, arg>>

NextTime == Resolve

SpecTime == InitTime /\ [][NextTime]_vars

\* ------------------------------------------- the days argument alone
MaxTail == 3        \* characters after the fifth

\* The first five characters: the template's letter in either case, or "x"
HeadChars(i) ==
    {DAYS_STRING[i], CHOOSE c \in {"m", "t", "w", "f"} :
                        CharUpper(c) = <<DAYS_STRING[i]>>, "x"}

Heads ==
    {<<a, b, c, d, e>> : a \in HeadChars(1), b \in HeadChars(2),
                         c \in HeadChars(3), d \in HeadChars(4),
                         e \in HeadChars(5)}

TailChars == {"S", "s", "x", "U+00DF", "U+017F"}

Tails == UNION {[1..n -> TailChars] : n \in 0..MaxTail}

NoOutcome == [result |-> "none", days |-> [i \in 0..(NDAYS - 1) |-> FALSE]]

\* arg is the string given as days
InitDays ==
    /\ InitScheduler
    /\ now = 0
    /\ family = "on_days"
    /\ arg \in {h \o t : h \in Heads, t \in Tails}
    /\ ret = NoOutcome

\* _Timer.__init__ lines 80-83 on a string
ParseDays ==
    /\ ret = NoOutcome
    /\ ret' = DaysOutcome(StrDays(arg))
    /\ UNCHANGED <<now, timers, queue, sequence, _count, mode, firing,
                   delivered, last, raised, calls, family, arg>>

NextDays == ParseDays

SpecDays == InitDays /\ [][NextDays]_vars

\* =================================================================== claims
\* A timer that cancel() made inactive, and a one-shot that fired and retired
Cancelled(t) == timers[t].cancelin >= 0
Retired(t) == timers[t].oneshot /\ ~timers[t].active /\ ~Cancelled(t)

\* A relative time specification (seconds or timedelta) and its delay in ticks
Relative(t) == timers[t].time.kind \in {"secs", "timedelta"}
DelayOf(t) == timers[t].time.d * DayLen + timers[t].time.s

\* The step in which the run loop invokes the callback of t
Invoked(t) == firing # t /\ firing' = t

\* The step in which the callback of t returns normally to the run loop
Returned(t) == firing = t /\ firing' # t /\ mode' = mode

\* t has an entry in the event queue
Queued(t) == \E e \in queue : e.timer = t

\* C1: wherever the caller's code can observe it (between API calls and inside
\* a callback), count() is the number of timers whose active flag is true,
\* which is the number of registrations made minus those cancelled and minus
\* the one-shot timers that fired and retired.
C1_CountIsActive ==
    CallerRuns =>
        /\ count = Cardinality({t \in Timers : timers[t].active})
        /\ count = Len(timers) - Cardinality({t \in Timers : Cancelled(t)})
                               - Cardinality({t \in Timers : Retired(t)})

\* A one-shot timer with a positive relative delay
OneShotRel(t) == timers[t].oneshot /\ Relative(t) /\ DelayOf(t) > 0

\* In every state: a one-shot with a positive relative delay that has not
\* fired and is still active is queued at T0 + d (so a run loop that reaches
\* that time invokes it), and one that has fired holds no handle and has no
\* queue entry.
C2_State ==
    \A t \in Timers : OneShotRel(t) =>
        /\ (timers[t].fires = 0 /\ timers[t].active) =>
                /\ timers[t].eventid \in queue
                /\ timers[t].eventid.time = timers[t].stamp + DelayOf(t)
        /\ timers[t].fires >= 1 => (timers[t].eventid = None /\ ~Queued(t))

\* In every step: the callback of such a one-shot is invoked at a clock time
\* >= T0 + d and only if it was never invoked before.
C2_Timing ==
    \A t \in Timers : (OneShotRel(t) /\ Invoked(t)) =>
        /\ now >= timers[t].stamp + DelayOf(t)
        /\ timers[t].fires = 0

\* In every step: when the callback of such a one-shot returns normally, the
\* timer is inactive.
C2_InactiveOnReturn ==
    \A t \in Timers : (OneShotRel(t) /\ Returned(t)) => ~timers'[t].active

\* After the firing (its callback is over, however it ended) the one-shot is
\* inactive.
C2_InactiveAfter ==
    \A t \in Timers :
        (OneShotRel(t) /\ timers[t].fires >= 1 /\ firing # t) => ~timers[t].active

\* C2 as stated: a one-shot with positive relative delay d registered at T0 is
\* invoked at a clock time >= T0 + d, at most once (exactly once if the run
\* loop reaches its deadline and it was not cancelled), and after that firing
\* it is inactive and never queued again.
C2_Original ==
    [][C2_State /\ C2_State' /\ C2_Timing /\ C2_InactiveAfter']_vars

\* C2 amended: as C2_Original, but the one-shot is inactive after the firing
\* only when its callback returned normally; a callback that raises leaves it
\* active (and still never queued again).
C2_OneShot ==
    [][C2_State /\ C2_State' /\ C2_Timing /\ C2_InactiveOnReturn]_vars

\* C2's case: a one-shot with a positive relative delay has fired once and
\* retired.
C2_Witness ==
    \E t \in Timers :
        OneShotRel(t) /\ timers[t].fires = 1 /\ Retired(t) /\ firing # t

\* C3: two consecutive invocations of the callback of a repeat timer with
\* relative period p are at clock times at least p apart, and when its
\* callback returns to the run loop and the timer was not cancelled, the timer
\* is queued again, no earlier than p after that moment.
C3_Repeat ==
    [][\A t \in Timers : (~timers[t].oneshot /\ Relative(t)) =>
        /\ (Invoked(t) /\ timers[t].fires >= 1) =>
                now >= timers[t].stamp + DelayOf(t)
        /\ (Returned(t) /\ timers'[t].active) =>
                /\ timers'[t].eventid \in queue'
                /\ timers'[t].eventid.timer = t
                /\ timers'[t].eventid.time >= now + DelayOf(t)]_vars

\* C3's case: a repeat timer with a relative period has been invoked twice and
\* is queued again.
C3_Witness ==
    \E t \in Timers :
        /\ ~timers[t].oneshot /\ Relative(t) /\ DelayOf(t) > 0
        /\ timers[t].fires >= 2 /\ timers[t].active
        /\ timers[t].eventid \in queue

\* t was cancelled while it held its handle: queued, not firing
CancelledQueued(t) == Cancelled(t) /\ timers[t].eventid # None

\* C4: once cancel(t) has returned for an active timer t that was queued and
\* not firing, the callback of t is never invoked and t has no queue entry,
\* also when the cancel came from another timer's callback with t already due.
C4_NoFireAfterCancel ==
    [][\A t \in Timers : CancelledQueued(t) =>
            (~Invoked(t) /\ ~Queued(t))]_vars

\* C4's case: t was cancelled from the callback of a one-shot a, whose only
\* invocation came when t was already due, and the run has returned without
\* invoking t.
C4_Witness ==
    \E t \in Timers : \E a \in Timers :
        /\ a # t /\ timers[t].cancelin = a /\ CancelledQueued(t)
        /\ timers[a].oneshot /\ timers[t].eventid.time <= timers[a].stamp
        /\ timers[t].fires = 0
        /\ mode = "idle" /\ last.op = "run" /\ last.result = "ok"

\* C5: cancel(t) on an inactive timer raises AlreadyCancelled and changes
\* neither the count, the queue nor any timer.
C5_CancelInactive ==
    [][\A t \in Timers :
        (calls' = calls + 1 /\ last'.op = "cancel" /\ last'.timer = t
            /\ ~timers[t].active) =>
                /\ last'.result = "AlreadyCancelled"
                /\ UNCHANGED <<_count, queue, timers>>]_vars

\* C5's case: the last call was a cancel of a one-shot that had fired and
\* retired, and it raised.
C5_Witness ==
    /\ last.op = "cancel" /\ last.result = "AlreadyCancelled"
    /\ last.timer \in Timers /\ Retired(last.timer)

\* The step is a registration call (oneshot, repeat or an on_days variant)
Registers == calls' = calls + 1 /\ last'.op = "register"

\* A time specification that is an absolute instant or a calendar date
Absolute(time) == time.kind \in {"datetime", "date"}

\* The days argument of the request passes lines 80-83
DaysValid(req) == DaysOutcome(req.days).result = "ok"

\* No repeat timer holds an absolute time, so that no re-arming in the run
\* loop can raise UnsupportedRepeatKind, and no run has ended with it.
C6_NeverFromRun ==
    /\ \A t \in Timers : Absolute(timers[t].time) => timers[t].oneshot
    /\ last.op = "run" => last.result # "UnsupportedRepeatKind"

\* The outcome of a registration with an absolute time: a repeat raises
\* UnsupportedRepeatKind, a one-shot is accepted and queued at the instant.
C6_Outcome ==
    /\ ~last'.req.oneshot => last'.result = "UnsupportedRepeatKind"
    /\ last'.req.oneshot =>
            /\ last'.result = "ok"
            /\ last'.timer = Len(timers) + 1
            /\ timers'[last'.timer].eventid \in queue' \ queue
            /\ timers'[last'.timer].eventid.time =
                    timestamp(last'.req.time.d, last'.req.time.s)

\* C6 as stated: every repeat or repeat_on_days registration with an absolute
\* instant or a calendar date raises UnsupportedRepeatKind from the call, never
\* later from the run loop, and a one-shot with the same specification is
\* accepted and queued at that deadline.
C6_Original ==
    [][/\ (Registers /\ Absolute(last'.req.time)) => C6_Outcome
       /\ C6_NeverFromRun']_vars

\* C6 amended: as C6_Original for registrations whose days argument is valid
\* (absent, or a mask in the MTWTFSS format with at least one day enabled, or
\* a list with a day in 0..6); an invalid days argument raises FormatError or
\* InvalidWeekdayMask first, whatever the time specification.
C6_AbsoluteRepeat ==
    [][/\ (Registers /\ Absolute(last'.req.time) /\ DaysValid(last'.req)) =>
                C6_Outcome
       /\ (Registers /\ ~DaysValid(last'.req)) =>
                last'.result = DaysOutcome(last'.req.days).result
       /\ C6_NeverFromRun']_vars

\* C6's case: a repeat_on_days with an absolute instant has just raised
\* UnsupportedRepeatKind, and a one-shot with the same instant is queued at it.
C6_Witness ==
    /\ last.op = "register" /\ last.result = "UnsupportedRepeatKind"
    /\ last.req.days.kind # "none"
    /\ \E t \in Timers :
        /\ timers[t].oneshot /\ timers[t].time = last.req.time
        /\ timers[t].eventid \in queue
        /\ timers[t].eventid.time = timestamp(last.req.time.d, last.req.time.s)

\* The day offsets k from today for which day today + k is enabled in the mask
\* and (today + k, timev) is strictly later than now
Eligible(timev, flags, t) ==
    {k \in 0..(2 * NDAYS) :
        /\ flags[weekday(now_date(t) + k)]
        /\ timestamp(now_date(t) + k, timev) > t}

\* The least element of a non-empty set of numbers
Least(S) == CHOOSE k \in S : \A o \in S : k <= o

\* C7: for every now, target time-of-day and mask with an enabled day, the
\* resolved deadline is (day, timev) for the earliest day, today or later, that
\* is enabled and makes (day, timev) strictly later than now; today is taken
\* only when timev is strictly after now's time-of-day, and the day offset is
\* between 0 and 7.
C7_NextEnabledDay ==
    ret # NoResult =>
        LET k == Least(Eligible(arg.timev, arg.days, now)) IN
        /\ ~ret.err
        /\ ret.when = timestamp(now_date(now) + k, arg.timev)
        /\ k \in 0..NDAYS
        /\ k = 0 => arg.timev > now_time(now)

\* C7's case: the target time-of-day has passed today, tomorrow is disabled,
\* and the deadline resolved is two to six days ahead.
C7_Witness ==
    /\ ret # NoResult
    /\ arg.timev <= now_time(now)
    /\ ~arg.days[weekday(now_date(now) + 1)]
    /\ ret.when \in {timestamp(now_date(now) + k, arg.timev) : k \in 2..(NDAYS - 1)}

\* The mask enables today's weekday and no other day
OnlyToday(flags, t) ==
    \A i \in 0..(NDAYS - 1) : flags[i] <=> (i = weekday(now_date(t)))

\* C8: with a mask whose only enabled day is today's weekday and a target
\* time-of-day at or before now's, the deadline is exactly seven days after
\* today at the target time.
C8_FullWeekSkip ==
    (ret # NoResult /\ OnlyToday(arg.days, now) /\ arg.timev <= now_time(now)) =>
        ret.when = timestamp(now_date(now) + NDAYS, arg.timev)

\* C8's case: only today is enabled, the target time is exactly now's
\* time-of-day, and a deadline has been resolved.
C8_Witness ==
    /\ ret # NoResult /\ ret.when > now
    /\ OnlyToday(arg.days, now)
    /\ arg.timev = now_time(now)

\* The lowercase of a letter of the template
Lower(c) ==
    CASE c = "M" -> "m" [] c = "T" -> "t" [] c = "W" -> "w"
      [] c = "F" -> "f" [] c = "S" -> "s"

\* str equals the template MTWTFSS ignoring case: seven characters, each the
\* template's letter at its position, in uppercase or lowercase
MatchesTemplate(str) ==
    /\ Len(str) = Len(DAYS_STRING)
    /\ \A i \in 1..Len(DAYS_STRING) :
            str[i] \in {DAYS_STRING[i], Lower(DAYS_STRING[i])}

\* C9: a string is accepted only if it equals MTWTFSS ignoring case, any
\* string of another length or with other letters being a FormatError; in an
\* accepted string day i is enabled exactly when character i is uppercase, and
\* a string that enables no day is rejected with InvalidWeekdayMask.
C9_MaskString ==
    ret # NoOutcome =>
        /\ ret.result = "FormatError" <=> ~MatchesTemplate(arg)
        /\ ret.result # "FormatError" =>
            /\ \A i \in 0..(NDAYS - 1) :
                    ret.days[i] <=> arg[i + 1] = DAYS_STRING[i + 1]
            /\ ret.result = "InvalidWeekdayMask" <=>
                    (\A i \in 0..(NDAYS - 1) : ~ret.days[i])
            /\ arg = DAYS_STRING => (\A i \in 0..(NDAYS - 1) : ret.days[i])

\* The step in which the run loop pops an Event and calls its action
Pops == firing = 0 /\ firing' # 0

\* a is before b in the order of the claim: the earlier deadline, then the
\* lower priority value, then the earlier insertion into the queue
Before(a, b) ==
    \/ a.time < b.time
    \/ a.time = b.time /\ a.priority < b.priority
    \/ a.time = b.time /\ a.priority = b.priority /\ a.sequence < b.sequence

\* Every pop takes the entry that is before every other queued entry, while no
\* callback is executing; entries are numbered in the order of their insertion.
C10_PopsLeast ==
    /\ Pops =>
        /\ delivered' \in queue /\ queue' = queue \ {delivered'}
        /\ firing' = delivered'.timer
        /\ \A o \in queue' : Before(delivered', o)
    /\ \A e \in queue' \ queue : \A o \in queue : o.sequence < e.sequence

\* C10 as stated: run() delivers callbacks one at a time in non-decreasing
\* deadline order, ties broken by the lower priority value and then by the
\* earlier insertion, entries inserted by re-arming and inside callbacks
\* included.
C10_Original ==
    [][/\ C10_PopsLeast
       /\ (Pops /\ delivered # None) => delivered'.time >= delivered.time]_vars

\* C10 amended: run() delivers callbacks one at a time, each time the queued
\* entry with the least deadline, then the lower priority value, then the
\* earlier insertion; the deadlines of successive deliveries are non-decreasing
\* except for a one-shot with an absolute instant or calendar date, which a
\* callback can register with a deadline before that of the delivery in
\* progress.
C10_Order ==
    [][/\ C10_PopsLeast
       /\ (Pops /\ delivered # None /\ delivered'.time < delivered.time) =>
            /\ Absolute(timers[delivered'.timer].time)
            /\ delivered'.sequence > delivered.sequence]_vars

\* C10's case: the entry just popped has the deadline of an entry still
\* queued that was inserted earlier with a higher priority value, and it
\* follows a delivery of the same run.
C10_Witness ==
    /\ firing # 0 /\ delivered.timer = firing /\ timers[firing].eventid = None
    /\ \E o \in queue :
        /\ o.time = delivered.time
        /\ o.priority > delivered.priority
        /\ o.sequence < delivered.sequence

\* The step in which a run(blocking=True) returns normally
BlockingRunReturns == mode = "blocking" /\ mode' = "idle" /\ last'.result = "ok"

\* C11: whenever run(blocking=True) returns normally, count() is 0, no timer
\* is active and the event queue is empty.
C11_BlockingRunDrains ==
    [][BlockingRunReturns =>
        /\ count' = 0
        /\ \A t \in Timers : ~timers'[t].active
        /\ queue' = {}]_vars

\* C12: every invocation of a timer's callback happens on a weekday enabled
\* in the days mask of its registration, whatever the kind of its time
\* specification (a registration without days enables every weekday).
C12_FiresOnEnabledDay ==
    [][\A t \in Timers :
        Invoked(t) => timers[t].days[weekday(now_date(now))]]_vars

\* The run loop of a run(blocking=False) is between callbacks
NonBlockingLoop == mode = "nonblocking" /\ firing = 0

\* The queued entries whose deadline is at or before the clock
Due == {e \in queue : e.time <= now}

\* C13: the loop of run(blocking=False) pops only an entry that is due, leaves
\* every entry that is not due in the queue, never lets the clock advance
\* (it does not wait), does nothing but return when no entry is due, and
\* returns only then.
C13_NonBlocking ==
    [][NonBlockingLoop =>
        /\ Pops => (delivered' \in Due /\ queue' = queue \ {delivered'})
        /\ \A e \in queue \ Due : e \in queue'
        /\ now' = now
        /\ Due = {} => (mode' = "idle" /\ last'.result = "ok"
                            /\ UNCHANGED <<queue, timers, _count>>)
        /\ mode' = "idle" => Due = {}]_vars

\* C13's case: a run(blocking=False) delivered a due entry and returned,
\* leaving an entry that is not yet due in the queue.
C13_Witness ==
    /\ mode = "idle" /\ last.op = "run" /\ last.result = "ok"
    /\ delivered # None
    /\ \E e \in queue : e.time > now

\* A repeat timer that was cancelled while its own callback was in progress
SelfCancelled(t) == ~timers[t].oneshot /\ timers[t].cancelin = t

\* The step is a successful cancel of t made while the callback of t executes
CancelsInOwnCallback(t) ==
    firing = t /\ timers[t].active /\ ~timers'[t].active /\ firing' = t

\* C14: a repeat timer cancelled during its own callback invocation is
\* inactive, holds no handle and has no queue entry from the cancel on; the
\* cancel decrements the count by exactly 1, the return of the callback
\* changes neither the count nor the queue nor any timer, and the callback is
\* never invoked again.
C14_NoRearmAfterSelfCancel ==
    [][\A t \in Timers : ~timers[t].oneshot =>
        /\ CancelsInOwnCallback(t) =>
                (_count' = _count - 1 /\ queue' = queue /\ SelfCancelled(t)')
        /\ SelfCancelled(t) =>
            /\ ~timers[t].active /\ timers[t].eventid = None /\ ~Queued(t)
            /\ ~timers'[t].active /\ ~Queued(t)'
            /\ ~Invoked(t)
            /\ _count' >= _count \/ (\E o \in Timers \ {t} :
                                        timers[o].active /\ ~timers'[o].active)
            /\ Returned(t) =>
                    UNCHANGED <<_count, queue, sequence, timers>>]_vars

\* C14's case: a repeat timer cancelled in its own callback, whose callback
\* has returned to a run loop that went on and then returned.
C14_Witness ==
    \E t \in Timers :
        /\ SelfCancelled(t) /\ firing = 0 /\ timers[t].fires = 1
        /\ mode = "idle" /\ last.op = "run" /\ last.result = "ok"

\* A repeat timer whose time specification is a time of day
RepeatDaily(t) == ~timers[t].oneshot /\ timers[t].time.kind = "time"

\* The step in which the callback of t returns and cb re-arms t
Rearmed(t) == Returned(t) /\ timers'[t].active /\ ~timers[t].oneshot

\* The first day after day d that is enabled in the mask
NextEnabledAfter(flags, d) ==
    d + Least({k \in 1..NDAYS : flags[weekday(d + k)]})

\* The entry inserted by re-arming t after the firing at deadline
\* delivered.time: it is queued, for t, at the target time-of-day, strictly
\* later than that deadline
C15_Entry(t) ==
    /\ delivered.timer = t
    /\ timers'[t].eventid \in queue' \ queue
    /\ timers'[t].eventid.timer = t
    /\ timers'[t].eventid.time > delivered.time
    /\ now_time(timers'[t].eventid.time) = timers[t].time.s

Raised(t) == firing = t /\ firing' = 0 /\ last'.result = "raised"

\* What the run loop and cb do around a callback that raises. The firing pops
\* the entry of t and clears the handle of t, and changes neither the count
\* nor any other timer or entry. The raise ends the run, the exception leaving
\* run(), and changes no timer, entry or count, so that t has no handle and no
\* queue entry after it.
C16_Frame ==
    \A t \in Timers :
        /\ Invoked(t) =>
            /\ queue' = queue \ {timers[t].eventid}
            /\ \A o \in Timers \ {t} : timers'[o] = timers[o]
            /\ timers'[t].active = timers[t].active
            /\ timers'[t].eventid = None
            /\ _count' = _count
        /\ Raised(t) =>
            /\ mode' = "idle" /\ last'.op = "run" /\ last'.timer = t
            /\ UNCHANGED <<timers, queue, _count, sequence>>
            /\ timers'[t].eventid = None /\ ~Queued(t)'

\* C16 as stated: a callback that raises ends run() with the exception and
\* leaves the firing timer active, without handle or queue entry, the count
\* not decremented and every other timer and entry as before the firing.
C16_Original ==
    [][C16_Frame /\ \A t \in Timers : Raised(t) => timers'[t].active]_vars

\* C16 amended: as C16_Original, except that what the callback itself did
\* before raising stays done: the firing timer is left active unless the
\* callback cancelled it (then it is inactive and the count was decremented by
\* that cancel), and the other timers differ from before the firing only by
\* the callback's own API calls.
C16_Raise ==
    [][C16_Frame /\ \A t \in Timers :
            Raised(t) => (timers'[t].active <=> timers'[t].cancelin # t)]_vars

\* C16's case: the callback of a timer has raised; the timer is active with no
\* handle and no queue entry, and another timer is still queued.
C16_Witness ==
    /\ mode = "idle" /\ last.op = "run" /\ last.result = "raised"
    /\ timers[last.timer].active /\ timers[last.timer].eventid = None
    /\ ~Queued(last.timer)
    /\ \E o \in Timers \ {last.timer} : timers[o].eventid \in queue

\* The step is a cancel() of t that succeeds
CancelSucceeds(t) ==
    /\ calls' = calls + 1
    /\ last'.op = "cancel" /\ last'.timer = t /\ last'.result = "ok"

\* C17: a timer is active when constructed; its active flag turns false only
\* in the return of its callback when it is a one-shot, or in a cancel() of it
\* that succeeds (the only way for a repeat timer); once false it stays false
\* and no step inserts a queue entry for the timer.
C17_ActiveOnce ==
    [][/\ \A t \in 1..Len(timers') : t \notin Timers => timers'[t].active
       /\ \A t \in Timers :
            /\ (timers[t].active /\ ~timers'[t].active) =>
                    \/ timers[t].oneshot /\ Returned(t)
                    \/ CancelSucceeds(t)
            /\ (~timers[t].oneshot /\ timers[t].active /\ ~timers'[t].active) =>
                    CancelSucceeds(t)
            /\ ~timers[t].active =>
                    /\ ~timers'[t].active
                    /\ \A e \in queue' \ queue : e.timer # t]_vars

\* C17's case: a one-shot that fired and retired and a repeat timer that was
\* cancelled after it had fired, while the caller goes on using the scheduler.
C17_Witness ==
    /\ \E t \in Timers : Retired(t) /\ timers[t].fires = 1
    /\ \E t \in Timers :
        ~timers[t].oneshot /\ Cancelled(t) /\ timers[t].fires >= 1

\* C18: a registration call that fails with FormatError, InvalidWeekdayMask
\* or UnsupportedRepeatKind leaves count() as it was before the call and adds
\* no entry to the event queue.
C18_FailedRegistration ==
    [][(Registers /\ last'.result # "ok") =>
            (count' = count /\ queue' = queue)]_vars

\* The queue entries held for timer t
EntriesOf(t) == {e \in queue : e.timer = t}

\* C19: whenever no callback is executing and no callback has raised, every
\* queue entry is the stored handle of exactly one timer, which is active,
\* every active timer has exactly one queue entry, the one its handle
\* identifies, and inactive timers have none; while the callback of a timer
\* is executing, that timer holds no handle and has no queue entry.
C19_QueueAgrees ==
    /\ (firing = 0 /\ ~raised) =>
        /\ \A e \in queue :
            /\ Cardinality({t \in Timers : timers[t].eventid = e}) = 1
            /\ \A t \in Timers : timers[t].eventid = e => timers[t].active
        /\ \A t \in Timers :
            /\ timers[t].active => EntriesOf(t) = {timers[t].eventid}
            /\ ~timers[t].active => EntriesOf(t) = {}
    /\ firing # 0 =>
        /\ timers[firing].eventid = None
        /\ EntriesOf(firing) = {}

\* C19's case: between two firings of a run, with two timers queued at the
\* same deadline and priority and a one-shot that has just fired and retired.
C19_Witness ==
    /\ firing = 0 /\ ~raised /\ mode # "idle" /\ delivered # None
    /\ \E a \in queue : \E b \in queue \ {a} :
            a.time = b.time /\ a.priority = b.priority
    /\ Retired(delivered.timer)

\* C20: a cancel(t) that succeeds sets t inactive, leaving its other fields,
\* decrements the count by exactly 1 and removes from the queue the entry of
\* the handle of t, if t holds one, and nothing else; every other timer, and
\* so its active flag, handle and deadline, is unchanged, as are the clock, the
\* run in progress and the numbering of entries.
C20_CancelFrame ==
    [][\A t \in Timers : (CancelSucceeds(t) /\ timers[t].active) =>
        /\ ~timers'[t].active
        /\ timers'[t].eventid = timers[t].eventid
        /\ timers'[t].oneshot = timers[t].oneshot
        /\ timers'[t].time = timers[t].time /\ timers'[t].days = timers[t].days
        /\ timers'[t].prio = timers[t].prio
        /\ _count' = _count - 1
        /\ queue' = queue \ {timers[t].eventid}
        /\ queue \ queue' \subseteq EntriesOf(t)
        /\ Len(timers') = Len(timers)
        /\ \A o \in Timers \ {t} :
                timers'[o] = timers[o] /\ EntriesOf(o)' = EntriesOf(o)
        /\ UNCHANGED <<now, sequence, mode, firing, delivered, raised>>]_vars

\* C20's case: the last call cancelled t, and a timer queued before t with the
\* deadline and the priority of t is still queued.
C20_Witness ==
    /\ last.op = "cancel" /\ last.result = "ok"
    /\ timers[last.timer].eventid # None
    /\ \E o \in Timers \ {last.timer} :
        /\ timers[o].active /\ timers[o].eventid \in queue
        /\ timers[o].eventid.time = timers[last.timer].eventid.time
        /\ timers[o].eventid.priority = timers[last.timer].eventid.priority
        /\ timers[o].eventid.sequence < timers[last.timer].eventid.sequence

====
